---- MODULE Spec2Model ----
(***************************************************************************)
(* OptiSafeAI-Model: the MJPEG streaming back end.                         *)
(*   Scripts/config.py, main.py      configuration and start-up            *)
(*   Scripts/video_streamer.py       VideoStreamer, StreamManager          *)
(*   Scripts/detection.py            PersonDetector                        *)
(*   Scripts/server.py               VideoServer (Flask routes)            *)
(* Every HTTP request runs on its own thread of the threaded Flask server; *)
(* a client of the model is one such request.  A generator is modelled by  *)
(* the line its frame is at; the steps between two accesses of shared      *)
(* state (the capture, frame_count, the detector) are separate actions.    *)
(***************************************************************************)
EXTENDS Integers, Sequences, FiniteSets, TLC

\* ---- bounds of the model ------------------------------------------------
MaxPaths == 2
MaxFrames == 3
NumClients == 2
MaxSkip == 3

\* ---- program constants --------------------------------------------------
DefaultFrameSkip == 3
PersonClass == 0

Clients == 1 .. NumClients

\* Locations a configuration may name; "missing.mp4" cannot be opened.
Paths == {"a.mp4", "missing.mp4"}

RECURSIVE SeqsUpTo(_, _)
SeqsUpTo(S, n) ==
    IF n = 0 THEN {<<>>}
    ELSE LET shorter == SeqsUpTo(S, n - 1)
         IN shorter \cup {Append(q, x) : q \in {r \in shorter : Len(r) = n - 1}, x \in S}

\* The contents the configuration file may have.
ConfigFiles ==
    {[kind |-> k, videos |-> <<>>] : k \in {"absent", "malformed", "no_videos"}}
    \cup {[kind |-> "ok", videos |-> v] : v \in SeqsUpTo(Paths, MaxPaths)}

\* Identifiers a client may ask /video_feed/<video_id> for.
LookupIds == {"1", "2", "3", "4", "0", "01", "video1"}

\* What the YOLO model may report for a frame: the classes of its boxes.
DetResults == {<<>>, <<0>>, <<1, 0>>}

VARIABLES
    phase,            \* main.py: "start", "serving", "failed"
    config,           \* the configuration file
    video_paths,      \* StreamManager.video_paths
    streamers,        \* StreamManager.streamers: dict, in insertion order
    person_detector,  \* StreamManager.person_detector (object id, 0 = unset)
    ndetectors,       \* number of PersonDetector objects constructed
    vs,               \* the VideoStreamer objects, by object id
    caps,             \* the cv2.VideoCapture objects, by object id
    gen,              \* per client: the generator frame of generate_frames
    req,              \* per client: the request it sent
    resp,             \* per client: the response status and body so far
    detected,         \* per VideoStreamer: frames handed to detect_persons
    encode_failures,  \* per VideoStreamer: number of failed imencode calls
    screen_manager,   \* app.py: App.screen_manager (screens, current_screen)
    nav_manager,      \* app.py: App.nav_manager (buttons, current_selected, ...)
    appearance_mode   \* app.py: the customtkinter appearance mode

\* the state of the streaming server (main.py) and of the desktop App (app.py)
server_vars == <<phase, config, video_paths, streamers, person_detector,
                 ndetectors, vs, caps, gen, req, resp, detected, encode_failures>>
gui == <<screen_manager, nav_manager, appearance_mode>>

vars == <<phase, config, video_paths, streamers, person_detector, ndetectors,
          vs, caps, gen, req, resp, detected, encode_failures,
          screen_manager, nav_manager, appearance_mode>>

\* ---- pure helpers -------------------------------------------------------

Digit(d) ==
    CASE d = 0 -> "0" [] d = 1 -> "1" [] d = 2 -> "2" [] d = 3 -> "3"
      [] d = 4 -> "4" [] d = 5 -> "5" [] d = 6 -> "6" [] d = 7 -> "7"
      [] d = 8 -> "8" [] d = 9 -> "9"

\* f"{n}" for a non-negative int
RECURSIVE IntToStr(_)
IntToStr(n) == IF n < 10 THEN Digit(n) ELSE IntToStr(n \div 10) \o Digit(n % 10)

\* None, as an object reference (object ids start at 1)
None == 0

\* dict.get(key, None) on a dict kept as a sequence of [key, val] in insertion order
DictGet(d, key) ==
    IF \E i \in 1 .. Len(d) : d[i].key = key
    THEN d[CHOOSE i \in 1 .. Len(d) : d[i].key = key].val
    ELSE None

\* d[key] = val
DictSet(d, key, val) ==
    IF \E i \in 1 .. Len(d) : d[i].key = key
    THEN [i \in 1 .. Len(d) |-> IF d[i].key = key THEN [key |-> key, val |-> val] ELSE d[i]]
    ELSE Append(d, [key |-> key, val |-> val])

\* video_id = f"{i+1}", for the i-th path counted from 1
StreamIdZeroBased(i) == IntToStr(i - 1)
StreamId(i) == IntToStr(i)

\* f"video{i+1}", for the i-th path counted from 1
ListKeyFromKeys(i) == IntToStr(i)
ListKey(i) == "video" \o IntToStr(i)

NewCaptureAlwaysOpen(path) ==
    [path |-> path, opened |-> TRUE, pos |-> 0, eof |-> FALSE]

\* cv2.VideoCapture(path): a new capture, opened iff the location can be opened
NewCapture(path) ==
    [path |-> path, opened |-> path # "missing.mp4", pos |-> 0, eof |-> FALSE]

VideoStreamerInitSharedCap(video_id, video_path, detector, frame_skip, cap) ==
    [video_id |-> video_id, video_path |-> video_path, person_detector |-> detector,
     frame_skip |-> frame_skip, cap |-> 1, frame_count |-> 0]

\* VideoStreamer.__init__; cap is the id of the capture it constructs
VideoStreamerInit(video_id, video_path, detector, frame_skip, cap) ==
    [video_id |-> video_id, video_path |-> video_path, person_detector |-> detector,
     frame_skip |-> frame_skip, cap |-> cap, frame_count |-> 0]

\* StreamManager._initialize_streams: the heap after the loop over
\* enumerate(video_paths), started from heap h with the first i-1 paths done
RECURSIVE InitializeStreams(_, _, _, _)
InitializeStreams(paths, detector, i, h) ==
    IF i > Len(paths) THEN h
    ELSE LET video_id == StreamId(i)
             capId == Len(h.caps) + 1
             sId == Len(h.vs) + 1
             streamer == VideoStreamerInit(video_id, paths[i], detector,
                                           DefaultFrameSkip, capId)
         IN InitializeStreams(paths, detector, i + 1,
                [caps |-> Append(h.caps, NewCapture(paths[i])),
                 vs |-> Append(h.vs, streamer),
                 streamers |-> DictSet(h.streamers, video_id, sId)])

EmptyHeap == [caps |-> <<>>, vs |-> <<>>, streamers |-> <<>>]

\* StreamManager.get_streamer
GetStreamer(video_id) == DictGet(streamers, video_id)

\* StreamManager.list_videos: the dict it returns, in insertion order
ListVideosDict ==
    [i \in 1 .. Len(video_paths) |->
        [key |-> ListKey(i), val |-> video_paths[i]]]

\* a frame buffer: the source frame it holds, whether it was resized, the
\* rectangles drawn on it, and what the model reported for it (if asked)
NoFrame == [idx |-> -1, cap |-> 0, resized |-> FALSE, boxes |-> <<>>,
            results |-> <<>>]

\* cv2.resize(frame, (640, 360))
Resize(f) == [f EXCEPT !.resized = TRUE]

RECURSIVE DrawBoxesAllClasses(_, _)
DrawBoxesAllClasses(results, i) ==
    IF i > Len(results) THEN <<>>
    ELSE <<i>> \o DrawBoxesAllClasses(results, i + 1)

\* the loop of detect_persons: a rectangle for each box of class 0
RECURSIVE DrawBoxes(_, _)
DrawBoxes(results, i) ==
    IF i > Len(results) THEN <<>>
    ELSE (IF results[i] = PersonClass THEN <<i>> ELSE <<>>) \o DrawBoxes(results, i + 1)

\* cv2.imencode('.jpg', processed_frame)[1].tobytes()
Imencode(f) == [jpg |-> f]

ChunkNoTrailer(frame_data) ==
    <<"--frame\r\nContent-Type: image/jpeg\r\n\r\n", frame_data>>

\* the bytes generate_frames yields for one encoded frame
Chunk(frame_data) ==
    <<"--frame\r\nContent-Type: image/jpeg\r\n\r\n", frame_data, "\r\n">>

IdleGen == [pc |-> "idle", self |-> 0, frame |-> NoFrame,
            processed_frame |-> NoFrame, tmp |-> 0, out |-> <<>>]

NoReq == [kind |-> "none", video_id |-> ""]
NoResp == [status |-> 0, body |-> <<>>]

\* no App object exists in the server process
NoManager == [none |-> TRUE]
NoGui ==
    /\ screen_manager = NoManager
    /\ nav_manager = NoManager
    /\ appearance_mode = "dark"

\* ---- start-up -----------------------------------------------------------

Init ==
    /\ phase = "start"
    /\ config \in ConfigFiles
    /\ video_paths = <<>>
    /\ streamers = <<>>
    /\ person_detector = 0
    /\ ndetectors = 0
    /\ vs = <<>>
    /\ caps = <<>>
    /\ gen = [c \in Clients |-> IdleGen]
    /\ req = [c \in Clients |-> NoReq]
    /\ resp = [c \in Clients |-> NoResp]
    /\ detected = <<>>
    /\ encode_failures = <<>>
    /\ NoGui

\* load_video_paths_from_config: [ok, value]
LoadVideoPaths(cfg) ==
    CASE cfg.kind = "absent" -> [ok |-> FALSE, value |-> <<>>]
      [] cfg.kind = "malformed" -> [ok |-> FALSE, value |-> <<>>]
      [] cfg.kind = "no_videos" -> [ok |-> TRUE, value |-> <<>>]
      [] OTHER -> [ok |-> TRUE, value |-> cfg.videos]

\* StreamManager.__init__: one PersonDetector, then _initialize_streams
StreamManagerInit(paths) ==
    LET det == ndetectors + 1
        h == InitializeStreams(paths, det, 1, EmptyHeap)
    IN /\ video_paths' = paths
       /\ person_detector' = det
       /\ ndetectors' = det
       /\ streamers' = h.streamers
       /\ vs' = h.vs
       /\ caps' = h.caps
       /\ detected' = [s \in 1 .. Len(h.vs) |-> <<>>]
       /\ encode_failures' = [s \in 1 .. Len(h.vs) |-> 0]

\* main(): load the configuration, build the VideoServer, run it
Main ==
    /\ phase = "start"
    /\ LET loaded == LoadVideoPaths(config)
       IN IF loaded.ok
          THEN /\ StreamManagerInit(loaded.value)
               /\ phase' = "serving"
          ELSE /\ phase' = "failed"
               /\ UNCHANGED <<gui, video_paths, streamers, person_detector, ndetectors,
                              vs, caps, detected, encode_failures>>
    /\ UNCHANGED <<gui, config, gen, req, resp>>

\* ---- server.py: the routes ----------------------------------------------

\* `if streamer:` - a VideoStreamer defines neither __bool__ nor __len__
Truthy(x) == x # None

VideoFeedPops(c, video_id) ==
    /\ phase = "serving"
    /\ gen[c].pc = "idle"
    /\ req' = [req EXCEPT ![c] = [kind |-> "video_feed", video_id |-> video_id]]
    /\ LET streamer == GetStreamer(video_id)
       IN IF Truthy(streamer)
          THEN /\ gen' = [gen EXCEPT ![c].pc = "created", ![c].self = streamer]
               /\ resp' = [resp EXCEPT ![c] = [status |-> 200, body |-> <<>>]]
          ELSE /\ gen' = [gen EXCEPT ![c].pc = "finished"]
               /\ resp' = [resp EXCEPT ![c] =
                              [status |-> 404, body |-> <<"Video ID not found">>]]
    /\ streamers' = SelectSeq(streamers, LAMBDA e : e.key # video_id)
    /\ UNCHANGED <<gui, phase, config, video_paths, person_detector,
                   ndetectors, vs, caps, detected, encode_failures>>

\* GET /video_feed/<video_id>
VideoFeed(c, video_id) ==
    /\ phase = "serving"
    /\ gen[c].pc = "idle"
    /\ req' = [req EXCEPT ![c] = [kind |-> "video_feed", video_id |-> video_id]]
    /\ LET streamer == GetStreamer(video_id)
       IN IF Truthy(streamer)
          THEN /\ gen' = [gen EXCEPT ![c].pc = "created", ![c].self = streamer]
               /\ resp' = [resp EXCEPT ![c] = [status |-> 200, body |-> <<>>]]
          ELSE /\ gen' = [gen EXCEPT ![c].pc = "finished"]
               /\ resp' = [resp EXCEPT ![c] =
                              [status |-> 404, body |-> <<"Video ID not found">>]]
    /\ UNCHANGED <<gui, phase, config, video_paths, streamers, person_detector,
                   ndetectors, vs, caps, detected, encode_failures>>

\* GET /list_videos; the body is the dict handed to jsonify
ListVideos(c) ==
    /\ phase = "serving"
    /\ gen[c].pc = "idle"
    /\ req' = [req EXCEPT ![c] = [kind |-> "list_videos", video_id |-> ""]]
    /\ gen' = [gen EXCEPT ![c].pc = "finished"]
    /\ resp' = [resp EXCEPT ![c] = [status |-> 200, body |-> ListVideosDict]]
    /\ UNCHANGED <<gui, phase, config, video_paths, streamers, person_detector,
                   ndetectors, vs, caps, detected, encode_failures>>

\* ---- VideoStreamer.generate_frames, one action per step -----------------

Self(c) == vs[gen[c].self]
CapOf(c) == Self(c).cap

ResumeRewinds(c) ==
    /\ gen[c].pc \in {"created", "yielded"}
    /\ gen' = [gen EXCEPT ![c].pc = "while"]
    /\ caps' = IF gen[c].pc = "created"
               THEN [caps EXCEPT ![CapOf(c)].pos = 0]
               ELSE caps
    /\ UNCHANGED <<gui, phase, config, video_paths, streamers, person_detector,
                   ndetectors, vs, req, resp, detected, encode_failures>>

\* the response iterator asks for the next chunk: the generator starts, or
\* continues after its yield, at the loop test
Resume(c) ==
    /\ gen[c].pc \in {"created", "yielded"}
    /\ gen' = [gen EXCEPT ![c].pc = "while"]
    /\ UNCHANGED <<gui, phase, config, video_paths, streamers, person_detector,
                   ndetectors, vs, caps, req, resp, detected, encode_failures>>

\* the client goes away: the server closes the response iterator, which
\* raises GeneratorExit at the yield (or discards a generator never started)
Disconnect(c) ==
    /\ gen[c].pc \in {"created", "yielded"}
    /\ gen' = [gen EXCEPT ![c].pc = "closed"]
    /\ UNCHANGED <<gui, phase, config, video_paths, streamers, person_detector,
                   ndetectors, vs, caps, req, resp, detected, encode_failures>>

WhileTestReopens(c) ==
    /\ gen[c].pc = "while"
    /\ gen' = [gen EXCEPT ![c].pc = "read"]
    /\ caps' = IF caps[CapOf(c)].opened
               THEN caps
               ELSE [caps EXCEPT ![CapOf(c)] = NewCapture(@.path)]
    /\ UNCHANGED <<gui, phase, config, video_paths, streamers, person_detector,
                   ndetectors, vs, req, resp, detected, encode_failures>>

WhileTestSerialized(c) ==
    /\ gen[c].pc = "while"
    /\ \A d \in Clients \ {c} :
          gen[d].pc \notin {"read", "select", "detect", "incr", "store", "encode"}
    /\ gen' = [gen EXCEPT ![c].pc = IF caps[CapOf(c)].opened THEN "read" ELSE "release"]
    /\ UNCHANGED <<gui, phase, config, video_paths, streamers, person_detector,
                   ndetectors, vs, caps, req, resp, detected, encode_failures>>

\* while self.cap.isOpened():
WhileTest(c) ==
    /\ gen[c].pc = "while"
    /\ gen' = [gen EXCEPT ![c].pc = IF caps[CapOf(c)].opened THEN "read" ELSE "release"]
    /\ UNCHANGED <<gui, phase, config, video_paths, streamers, person_detector,
                   ndetectors, vs, caps, req, resp, detected, encode_failures>>

ReadFrameAhead(c) ==
    /\ gen[c].pc = "read"
    /\ LET k == CapOf(c)
           cap == caps[k]
       IN /\ cap.opened /\ ~cap.eof /\ cap.pos < MaxFrames
          /\ caps' = [caps EXCEPT ![k].pos = cap.pos + 2]
          /\ gen' = [gen EXCEPT
                ![c].frame = Resize([idx |-> cap.pos, cap |-> k,
                                     resized |-> FALSE, boxes |-> <<>>,
                                     results |-> <<>>]),
                ![c].pc = "select"]
    /\ UNCHANGED <<gui, phase, config, video_paths, streamers, person_detector,
                   ndetectors, vs, req, resp, detected, encode_failures>>

\* ret, frame = self.cap.read() with ret true, then cv2.resize
ReadFrame(c) ==
    /\ gen[c].pc = "read"
    /\ LET k == CapOf(c)
           cap == caps[k]
       IN /\ cap.opened /\ ~cap.eof /\ cap.pos < MaxFrames
          /\ caps' = [caps EXCEPT ![k].pos = cap.pos + 1]
          /\ gen' = [gen EXCEPT
                ![c].frame = Resize([idx |-> cap.pos, cap |-> k,
                                     resized |-> FALSE, boxes |-> <<>>,
                                     results |-> <<>>]),
                ![c].pc = "select"]
    /\ UNCHANGED <<gui, phase, config, video_paths, streamers, person_detector,
                   ndetectors, vs, req, resp, detected, encode_failures>>

ReadFailsRetries(c) ==
    /\ gen[c].pc = "read"
    /\ LET k == CapOf(c)
       IN caps' = [caps EXCEPT ![k].eof = caps[k].opened \/ caps[k].eof]
    /\ gen' = [gen EXCEPT ![c].pc = "while", ![c].frame = NoFrame]
    /\ UNCHANGED <<gui, phase, config, video_paths, streamers, person_detector,
                   ndetectors, vs, req, resp, detected, encode_failures>>

ReadFailsSpins(c) ==
    /\ gen[c].pc = "read"
    /\ LET k == CapOf(c)
       IN caps' = [caps EXCEPT ![k].eof = caps[k].opened \/ caps[k].eof]
    /\ gen' = [gen EXCEPT ![c].frame = NoFrame]
    /\ UNCHANGED <<gui, phase, config, video_paths, streamers, person_detector,
                   ndetectors, vs, req, resp, detected, encode_failures>>

\* ret, frame = self.cap.read() with ret false (end of the source, a frame
\* that cannot be decoded, a capture released meanwhile): break
ReadFails(c) ==
    /\ gen[c].pc = "read"
    /\ LET k == CapOf(c)
       IN caps' = [caps EXCEPT ![k].eof = caps[k].opened \/ caps[k].eof]
    /\ gen' = [gen EXCEPT ![c].pc = "release", ![c].frame = NoFrame]
    /\ UNCHANGED <<gui, phase, config, video_paths, streamers, person_detector,
                   ndetectors, vs, req, resp, detected, encode_failures>>

SelectedOffByOne(streamer) == (streamer.frame_count + 1) % streamer.frame_skip = 0

\* if self.frame_count % self.frame_skip == 0
Selected(streamer) == streamer.frame_count % streamer.frame_skip = 0

\* line 29: the frame goes into detect_persons, or is passed through
Select(c) ==
    /\ gen[c].pc = "select"
    /\ IF Selected(Self(c))
       THEN /\ gen' = [gen EXCEPT ![c].pc = "detect"]
            /\ detected' = [detected EXCEPT ![gen[c].self] =
                               Append(@, gen[c].frame.idx)]
       ELSE /\ gen' = [gen EXCEPT ![c].pc = "incr",
                                  ![c].processed_frame = gen[c].frame]
            /\ UNCHANGED detected
    /\ UNCHANGED <<gui, phase, config, video_paths, streamers, person_detector,
                   ndetectors, vs, caps, req, resp, encode_failures>>

\* detect_persons returns: the rectangles are drawn on the frame it was given
DetectPersons(f, results) ==
    [f EXCEPT !.boxes = f.boxes \o DrawBoxes(results, 1), !.results = results]

DetectReturns(c) ==
    /\ gen[c].pc = "detect"
    /\ \E results \in DetResults :
          LET annotated == DetectPersons(gen[c].frame, results)
          IN gen' = [gen EXCEPT ![c].pc = "incr",
                                ![c].frame = annotated,
                                ![c].processed_frame = annotated]
    /\ UNCHANGED <<gui, phase, config, video_paths, streamers, person_detector,
                   ndetectors, vs, caps, req, resp, detected, encode_failures>>

\* the model call inside detect_persons raises: nothing in generate_frames
\* catches it, the generator ends with the exception
DetectRaises(c) ==
    /\ gen[c].pc = "detect"
    /\ gen' = [gen EXCEPT ![c].pc = "error"]
    /\ UNCHANGED <<gui, phase, config, video_paths, streamers, person_detector,
                   ndetectors, vs, caps, req, resp, detected, encode_failures>>

\* self.frame_count += 1, the load
IncrLoad(c) ==
    /\ gen[c].pc = "incr"
    /\ gen' = [gen EXCEPT ![c].pc = "store", ![c].tmp = Self(c).frame_count]
    /\ UNCHANGED <<gui, phase, config, video_paths, streamers, person_detector,
                   ndetectors, vs, caps, req, resp, detected, encode_failures>>

\* self.frame_count += 1, the store
IncrStore(c) ==
    /\ gen[c].pc = "store"
    /\ vs' = [vs EXCEPT ![gen[c].self].frame_count = gen[c].tmp + 1]
    /\ gen' = [gen EXCEPT ![c].pc = "encode", ![c].tmp = 0]
    /\ UNCHANGED <<gui, phase, config, video_paths, streamers, person_detector,
                   ndetectors, caps, req, resp, detected, encode_failures>>

\* cv2.imencode succeeds: the chunk is yielded to the response (frame and
\* processed_frame are not read again before they are reassigned)
EncodeYield(c) ==
    /\ gen[c].pc = "encode"
    /\ LET chunk == Chunk(Imencode(gen[c].processed_frame))
       IN /\ gen' = [gen EXCEPT ![c].pc = "yielded",
                                ![c].out = Append(@, chunk),
                                ![c].frame = NoFrame,
                                ![c].processed_frame = NoFrame]
          /\ resp' = [resp EXCEPT ![c].body = Append(@, chunk)]
    /\ UNCHANGED <<gui, phase, config, video_paths, streamers, person_detector,
                   ndetectors, vs, caps, req, detected, encode_failures>>

EncodeFailsUncounted(c) ==
    /\ gen[c].pc = "encode"
    /\ gen' = [gen EXCEPT ![c].pc = "while",
                          ![c].frame = NoFrame,
                          ![c].processed_frame = NoFrame]
    /\ encode_failures' = [encode_failures EXCEPT ![gen[c].self] = @ + 1]
    /\ vs' = [vs EXCEPT ![gen[c].self].frame_count = @ - 1]
    /\ UNCHANGED <<gui, phase, config, video_paths, streamers, person_detector,
                   ndetectors, caps, req, resp, detected>>

\* cv2.imencode fails: continue
EncodeFails(c) ==
    /\ gen[c].pc = "encode"
    /\ gen' = [gen EXCEPT ![c].pc = "while",
                          ![c].frame = NoFrame,
                          ![c].processed_frame = NoFrame]
    /\ encode_failures' = [encode_failures EXCEPT ![gen[c].self] = @ + 1]
    /\ UNCHANGED <<gui, phase, config, video_paths, streamers, person_detector,
                   ndetectors, vs, caps, req, resp, detected>>

ReleaseSkipped(c) ==
    /\ gen[c].pc = "release"
    /\ gen' = [gen EXCEPT ![c].pc = "done"]
    /\ UNCHANGED <<gui, phase, config, video_paths, streamers, person_detector,
                   ndetectors, vs, caps, req, resp, detected, encode_failures>>

\* self.cap.release(), after the loop; the generator returns
Release(c) ==
    /\ gen[c].pc = "release"
    /\ caps' = [caps EXCEPT ![CapOf(c)].opened = FALSE]
    /\ gen' = [gen EXCEPT ![c].pc = "done"]
    /\ UNCHANGED <<gui, phase, config, video_paths, streamers, person_detector,
                   ndetectors, vs, req, resp, detected, encode_failures>>

GenStep(c) ==
    \/ Resume(c)
    \/ Disconnect(c)
    \/ WhileTest(c)
    \/ ReadFrame(c)
    \/ ReadFails(c)
    \/ Select(c)
    \/ DetectReturns(c)
    \/ DetectRaises(c)
    \/ IncrLoad(c)
    \/ IncrStore(c)
    \/ EncodeYield(c)
    \/ EncodeFails(c)
    \/ Release(c)

Next ==
    \/ Main
    \/ \E c \in Clients : \E video_id \in LookupIds : VideoFeed(c, video_id)
    \/ \E c \in Clients : ListVideos(c)
    \/ \E c \in Clients : GenStep(c)

Spec == Init /\ [][Next]_vars

\* ---- a VideoStreamer used on its own ------------------------------------
\* VideoStreamer's constructor takes any frame_skip; StreamManager only ever
\* passes the default.  SpecStreamer is one VideoStreamer built directly with
\* frame_skip in 1 .. MaxSkip, its generate_frames called by one consumer.

InitStreamer ==
    /\ phase = "direct"
    /\ config = [kind |-> "absent", videos |-> <<>>]
    /\ video_paths = <<>>
    /\ streamers = <<>>
    /\ person_detector = 0
    /\ ndetectors = 1
    /\ \E path \in Paths, frame_skip \in 1 .. MaxSkip :
          /\ vs = <<VideoStreamerInit("1", path, 1, frame_skip, 1)>>
          /\ caps = <<NewCapture(path)>>
    /\ gen = [c \in Clients |-> IdleGen]
    /\ req = [c \in Clients |-> NoReq]
    /\ resp = [c \in Clients |-> NoResp]
    /\ detected = <<(<<>>)>>
    /\ encode_failures = <<0>>
    /\ NoGui

\* streamer.generate_frames(): the generator object, not yet started
GenerateFrames(c, streamer) ==
    /\ phase = "direct"
    /\ gen[c].pc = "idle"
    /\ req' = [req EXCEPT ![c] = [kind |-> "generate_frames", video_id |-> ""]]
    /\ gen' = [gen EXCEPT ![c].pc = "created", ![c].self = streamer]
    /\ resp' = [resp EXCEPT ![c] = [status |-> 200, body |-> <<>>]]
    /\ UNCHANGED <<gui, phase, config, video_paths, streamers, person_detector,
                   ndetectors, vs, caps, detected, encode_failures>>

\* the one consumer of SpecStreamer
Consumer == CHOOSE c \in Clients : TRUE

NextStreamer ==
    \/ \E streamer \in 1 .. Len(vs) : GenerateFrames(Consumer, streamer)
    \/ GenStep(Consumer)

SpecStreamer == InitStreamer /\ [][NextStreamer]_vars

\* ---- a consumer that keeps pulling ---------------------------------------
\* The consumer never abandons the generator and detect_persons returns on
\* every call: the steps of generate_frames without Disconnect and
\* DetectRaises.  Each step is straight-line code of the one thread that runs
\* the generator, so a step that can be taken is eventually taken.

Pull(c) ==
    \/ Resume(c)
    \/ WhileTest(c)
    \/ ReadFrame(c)
    \/ ReadFails(c)
    \/ Select(c)
    \/ DetectReturns(c)
    \/ IncrLoad(c)
    \/ IncrStore(c)
    \/ EncodeYield(c)
    \/ EncodeFails(c)
    \/ Release(c)

NextPulling ==
    \/ \E streamer \in 1 .. Len(vs) : GenerateFrames(Consumer, streamer)
    \/ Pull(Consumer)

SpecPulling == InitStreamer /\ [][NextPulling]_vars /\ WF_vars(NextPulling)

\* ---- a StreamManager and the caller that built it -------------------------
\* StreamManager.__init__ keeps the caller's list itself (self.video_paths =
\* video_paths, no copy): video_paths is that one list object, and whatever
\* the caller does to its list afterwards is done to video_paths.

InitManager ==
    \E paths \in SeqsUpTo(Paths, MaxPaths) :
        LET h == InitializeStreams(paths, 1, 1, EmptyHeap)
        IN /\ phase = "serving"
           /\ config = [kind |-> "ok", videos |-> paths]
           /\ video_paths = paths
           /\ streamers = h.streamers
           /\ person_detector = 1
           /\ ndetectors = 1
           /\ vs = h.vs
           /\ caps = h.caps
           /\ gen = [c \in Clients |-> IdleGen]
           /\ req = [c \in Clients |-> NoReq]
           /\ resp = [c \in Clients |-> NoResp]
           /\ detected = [s \in 1 .. Len(h.vs) |-> <<>>]
           /\ encode_failures = [s \in 1 .. Len(h.vs) |-> 0]
           /\ NoGui

\* the caller's list.append(path)
CallerAppends(path) ==
    /\ Len(video_paths) <= MaxPaths
    /\ video_paths' = Append(video_paths, path)
    /\ UNCHANGED <<gui, phase, config, streamers, person_detector, ndetectors, vs,
                   caps, gen, req, resp, detected, encode_failures>>

\* the caller's list.pop()
CallerPops ==
    /\ video_paths # <<>>
    /\ video_paths' = SubSeq(video_paths, 1, Len(video_paths) - 1)
    /\ UNCHANGED <<gui, phase, config, streamers, person_detector, ndetectors, vs,
                   caps, gen, req, resp, detected, encode_failures>>

\* the caller's list[i] = path
CallerAssigns(i, path) ==
    /\ i \in 1 .. Len(video_paths)
    /\ video_paths' = [video_paths EXCEPT ![i] = path]
    /\ UNCHANGED <<gui, phase, config, streamers, person_detector, ndetectors, vs,
                   caps, gen, req, resp, detected, encode_failures>>

NextCaller ==
    \/ \E c \in Clients : \E video_id \in LookupIds : VideoFeed(c, video_id)
    \/ \E c \in Clients : ListVideos(c)
    \/ \E path \in Paths : CallerAppends(path)
    \/ CallerPops
    \/ \E i \in 1 .. MaxPaths + 1 : \E path \in Paths : CallerAssigns(i, path)

SpecCaller == InitManager /\ [][NextCaller]_vars

\* ---- app.py: the desktop App ---------------------------------------------

\* current_screen and current_selected start as None and are only ever tested
\* for truth (`if self.current_screen and ...`) or set to a registered name;
\* the empty string is as false as None
NoName == ""

\* str.lower() on the names the App and its callers use
Lower(name) ==
    CASE name = "Overview" -> "overview"
      [] name = "Camera" -> "camera"
      [] name = "Admin Panel" -> "admin panel"
      [] name = "License" -> "license"
      [] name = "Info" -> "info"
      [] name = "Settings" -> "settings"
      [] name = "Reports" -> "reports"
      [] OTHER -> name

\* setup_navigation: the buttons' texts and the screens their commands
\* navigate to, in the order of the add_button calls
NavButtons ==
    <<[text |-> "Overview", target |-> "overview"],
      [text |-> "Camera", target |-> "camera"],
      [text |-> "Admin Panel", target |-> "admin"],
      [text |-> "License", target |-> "license"],
      [text |-> "Info", target |-> "info"],
      [text |-> "Settings", target |-> "settings"]>>

\* setup_screens: the names of the add_screen calls, in order
ScreenNames == <<"overview", "camera", "admin", "license", "info", "settings">>

\* names a caller may hand to ScreenManager.show_screen
ShowNames ==
    {ScreenNames[i] : i \in 1 .. Len(ScreenNames)} \cup {"Overview", "reports"}

AppearanceModes == {"Light", "Dark", "System"}

\* d[key] = val on a dict held as a function
DictPut(d, key, val) ==
    [k \in DOMAIN d \cup {key} |-> IF k = key THEN val ELSE d[k]]

EmptyDict == [k \in {} |-> 0]

\* NavigationManager.add_button; a new button is transparent (not selected)
AddButton(nm, text, target) ==
    [nm EXCEPT !.buttons =
        DictPut(nm.buttons, Lower(text), [target |-> target, selected |-> FALSE])]

RECURSIVE AddButtons(_, _)
AddButtons(nm, i) ==
    IF i > Len(NavButtons) THEN nm
    ELSE AddButtons(AddButton(nm, NavButtons[i].text, NavButtons[i].target), i + 1)

\* NavigationManager.__init__ and the add_button calls of setup_navigation
SetupNavigation ==
    AddButtons([buttons |-> EmptyDict, current_selected |-> NoName,
                is_expanded |-> TRUE], 1)

\* ScreenManager.add_screen; the new frame is not placed in the grid
AddScreen(sm, name) ==
    [sm EXCEPT !.screens = DictPut(sm.screens, Lower(name), FALSE)]

RECURSIVE AddScreens(_, _)
AddScreens(sm, i) ==
    IF i > Len(ScreenNames) THEN sm
    ELSE AddScreens(AddScreen(sm, ScreenNames[i]), i + 1)

\* ScreenManager.__init__ and the add_screen calls of setup_screens
SetupScreens ==
    AddScreens([screens |-> EmptyDict, current_screen |-> NoName], 1)

\* ScreenManager.show_screen: screens[n] is TRUE while the frame is gridded
ShowScreen(sm, name) ==
    LET n == Lower(name)
        hidden == IF sm.current_screen # NoName
                     /\ sm.current_screen \in DOMAIN sm.screens
                  THEN [sm.screens EXCEPT ![sm.current_screen] = FALSE]
                  ELSE sm.screens
    IN IF n \in DOMAIN hidden
       THEN [screens |-> [hidden EXCEPT ![n] = TRUE], current_screen |-> n]
       ELSE [screens |-> hidden, current_screen |-> sm.current_screen]

\* NavigationManager.select_item
SelectItem(nm, name) ==
    LET n == Lower(name)
        cleared == IF nm.current_selected # NoName
                      /\ nm.current_selected \in DOMAIN nm.buttons
                   THEN [nm.buttons EXCEPT ![nm.current_selected].selected = FALSE]
                   ELSE nm.buttons
    IN IF n \in DOMAIN cleared
       THEN [nm EXCEPT !.buttons = [cleared EXCEPT ![n].selected = TRUE],
                       !.current_selected = n]
       ELSE [nm EXCEPT !.buttons = cleared]

\* App.__init__ up to setup_screens; show_default_screen is still to run
InitApp ==
    /\ phase = "setup"
    /\ config = [kind |-> "absent", videos |-> <<>>]
    /\ video_paths = <<>>
    /\ streamers = <<>>
    /\ person_detector = 0
    /\ ndetectors = 0
    /\ vs = <<>>
    /\ caps = <<>>
    /\ gen = [c \in Clients |-> IdleGen]
    /\ req = [c \in Clients |-> NoReq]
    /\ resp = [c \in Clients |-> NoResp]
    /\ detected = <<>>
    /\ encode_failures = <<>>
    /\ screen_manager = SetupScreens
    /\ nav_manager = SetupNavigation
    /\ appearance_mode = "dark"

\* App.show_default_screen, the last step of App.__init__
ShowDefaultScreen ==
    /\ phase = "setup"
    /\ phase' = "mainloop"
    /\ screen_manager' = ShowScreen(screen_manager, "overview")
    /\ nav_manager' = SelectItem(nav_manager, "overview")
    /\ UNCHANGED <<config, video_paths, streamers, person_detector, ndetectors,
                   vs, caps, gen, req, resp, detected, encode_failures,
                   appearance_mode>>

\* App.navigate_to, the command of a navigation button
NavigateTo(screen_name) ==
    /\ phase = "mainloop"
    /\ screen_manager' = ShowScreen(screen_manager, screen_name)
    /\ nav_manager' = SelectItem(nav_manager, screen_name)
    /\ UNCHANGED <<server_vars, appearance_mode>>

\* a call of screen_manager.show_screen on its own
ShowScreenCall(name) ==
    /\ phase = "mainloop"
    /\ screen_manager' = ShowScreen(screen_manager, name)
    /\ UNCHANGED <<server_vars, nav_manager, appearance_mode>>

\* NavigationManager.toggle, the command of the toggle button
Toggle ==
    /\ phase = "mainloop"
    /\ nav_manager' = [nav_manager EXCEPT !.is_expanded = ~nav_manager.is_expanded]
    /\ UNCHANGED <<server_vars, screen_manager, appearance_mode>>

\* the command of the appearance mode menu
SetAppearanceMode(mode) ==
    /\ phase = "mainloop"
    /\ appearance_mode' = mode
    /\ UNCHANGED <<server_vars, screen_manager, nav_manager>>

NextApp ==
    \/ ShowDefaultScreen
    \/ \E i \in 1 .. Len(NavButtons) : NavigateTo(NavButtons[i].target)
    \/ \E name \in ShowNames : ShowScreenCall(name)
    \/ Toggle
    \/ \E mode \in AppearanceModes : SetAppearanceMode(mode)

SpecApp == InitApp /\ [][NextApp]_vars

\* ---- properties ---------------------------------------------------------

CeilDiv(n, k) == (n + k - 1) \div k

\* the clients whose generator runs on VideoStreamer s
ConsumersOf(s) == {c \in Clients : gen[c].self = s}

\* C1: a source of n frames consumed to the end by the only consumer of a
\* VideoStreamer with frame_skip k has had exactly the frames 0, k, 2k, ...
\* handed to the detector, ceil(n / k) of them.
C1_Decimation ==
    \A c \in Clients :
        (gen[c].pc = "done" /\ ConsumersOf(gen[c].self) = {c}) =>
            LET s == gen[c].self
                n == caps[vs[s].cap].pos
                k == vs[s].frame_skip
            IN /\ Len(detected[s]) = CeilDiv(n, k)
               /\ \A j \in 1 .. Len(detected[s]) : detected[s][j] = (j - 1) * k

C1_Witness ==
    \E c \in Clients :
        /\ gen[c].pc = "done" /\ ConsumersOf(gen[c].self) = {c}
        /\ vs[gen[c].self].frame_skip = 2
        /\ caps[vs[gen[c].self].cap].pos = 3
        /\ detected[gen[c].self] = <<0, 2>>

RECURSIVE SumOver(_, _)
SumOver(S, f) ==
    IF S = {} THEN 0
    ELSE LET x == CHOOSE y \in S : TRUE IN f[x] + SumOver(S \ {x}, f)

\* chunks emitted so far by all generators of VideoStreamer s
Emitted(s) == SumOver(ConsumersOf(s), [c \in Clients |-> Len(gen[c].out)])

\* frames read so far from the capture of VideoStreamer s
FramesRead(s) == caps[vs[s].cap].pos

\* the generator of c is not inside an iteration of its loop
AtRest(c) == gen[c].pc \in {"created", "yielded", "release", "done", "closed", "error"}

\* the source frame a chunk was made from
FrameOf(chunk) == chunk[2].jpg

Increasing(out) ==
    \A i, j \in 1 .. Len(out) : i < j => FrameOf(out[i]).idx < FrameOf(out[j]).idx

\* C2 (as claimed): per stream the chunks emitted never outnumber the frames
\* read, equal them when no encode failed and no iteration is under way, and
\* every consumer receives its chunks in source order without duplicates.
C2_OutputCountAndOrder ==
    \A s \in 1 .. Len(vs) :
        /\ Emitted(s) <= FramesRead(s)
        /\ (encode_failures[s] = 0 /\ \A c \in ConsumersOf(s) : AtRest(c))
              => Emitted(s) = FramesRead(s)
        /\ \A c \in ConsumersOf(s) : Increasing(gen[c].out)

\* the two parts of C2 that do not involve the equality
C2_AtMostAndOrdered ==
    \A s \in 1 .. Len(vs) :
        /\ Emitted(s) <= FramesRead(s)
        /\ \A c \in ConsumersOf(s) : Increasing(gen[c].out)

\* C3 (as claimed): an error raised by the detector never ends a stream and
\* never reaches the consumer: no generator finishes with the exception.
C3_DetectionFailureContained ==
    \A c \in Clients : gen[c].pc # "error"

\* C4 (as claimed): once a consumer that was receiving a stream has gone
\* away, the capture of that stream is not left open.
C4_DisconnectReleases ==
    \A c \in Clients :
        (gen[c].pc = "closed" /\ gen[c].out # <<>>) => ~caps[CapOf(c)].opened

\* C5: while one stream is inside detect_persons, a generator of another
\* stream can take its next step wherever it stands: test the loop, read,
\* select, count, encode, emit, release.
C5_NoCrossStreamBlocking ==
    \A a, b \in Clients :
        (gen[a].pc = "detect" /\ gen[b].self \notin {None, gen[a].self}) =>
            /\ gen[b].pc \in {"created", "yielded"} => ENABLED Resume(b)
            /\ gen[b].pc = "while" => ENABLED WhileTest(b)
            /\ gen[b].pc = "read" => ENABLED (ReadFrame(b) \/ ReadFails(b))
            /\ gen[b].pc = "select" => ENABLED Select(b)
            /\ gen[b].pc = "incr" => ENABLED IncrLoad(b)
            /\ gen[b].pc = "store" => ENABLED IncrStore(b)
            /\ gen[b].pc = "encode" => ENABLED EncodeYield(b)
            /\ gen[b].pc = "release" => ENABLED Release(b)

\* stream a is inside detect while stream b has delivered a passed-through
\* frame and is about to start its next iteration
C5_Witness ==
    \E a, b \in Clients :
        /\ gen[a].pc = "detect"
        /\ gen[b].self \notin {None, gen[a].self}
        /\ gen[b].pc = "while"
        /\ Len(gen[b].out) = 2

\* C6 (as claimed): detect_persons calls of different streams never overlap.
C6_DetectSerialized ==
    \A a, b \in Clients :
        (gen[a].pc = "detect" /\ gen[b].pc = "detect") => gen[a].self = gen[b].self

\* the configured locations the registry was built from
Configured == LoadVideoPaths(config).value

\* C7: get_streamer finds the VideoStreamer of the i-th configured location
\* for the identifier str(i), 1 <= i <= n, and nothing for any other
\* identifier; /video_feed answers 404 exactly when nothing is found.
C7_Lookup ==
    phase = "serving" =>
        /\ \A id \in LookupIds :
              IF \E i \in 1 .. Len(Configured) : id = IntToStr(i)
              THEN /\ GetStreamer(id) # None
                   /\ \A i \in 1 .. Len(Configured) :
                         id = IntToStr(i) =>
                            vs[GetStreamer(id)].video_path = Configured[i]
              ELSE GetStreamer(id) = None
        /\ \A c \in Clients :
              req[c].kind = "video_feed" =>
                 /\ resp[c].status = 404 <=> GetStreamer(req[c].video_id) = None
                 /\ resp[c].status = 200 <=> GetStreamer(req[c].video_id) # None
                 /\ resp[c].status = 200 => gen[c].self = GetStreamer(req[c].video_id)

\* on a registry of two locations "3" was answered 404 and "1" was answered
\* with the stream of the first location
C7_Witness ==
    /\ Configured = <<"a.mp4", "missing.mp4">>
    /\ \E c, d \in Clients :
          /\ req[c] = [kind |-> "video_feed", video_id |-> "3"]
          /\ resp[c].status = 404
          /\ req[d] = [kind |-> "video_feed", video_id |-> "1"]
          /\ resp[d].status = 200
          /\ vs[gen[d].self].video_path = "a.mp4"

\* C8: list_videos answers with exactly the keys "video1" .. "videon", in
\* configuration order, "video{i}" mapped to the i-th configured location.
C8_List ==
    \A c \in Clients :
        req[c].kind = "list_videos" =>
            /\ resp[c].status = 200
            /\ Len(resp[c].body) = Len(Configured)
            /\ \A i \in 1 .. Len(Configured) :
                  /\ resp[c].body[i].key = "video" \o IntToStr(i)
                  /\ resp[c].body[i].val = Configured[i]

C8_Witness ==
    \E c \in Clients :
        /\ req[c].kind = "list_videos"
        /\ resp[c].body = <<[key |-> "video1", val |-> "missing.mp4"],
                            [key |-> "video2", val |-> "a.mp4"]>>

\* C9: once the registry is built its keys are "1" .. "n" in input order,
\* each key has its own VideoStreamer with its own capture of the configured
\* location, and all VideoStreamers hold the one PersonDetector.
C9_Registry ==
    phase = "serving" =>
        /\ Len(streamers) = Len(Configured)
        /\ Len(vs) = Len(Configured)
        /\ ndetectors = 1
        /\ \A i \in 1 .. Len(streamers) :
              LET streamer == vs[streamers[i].val]
              IN /\ streamers[i].key = IntToStr(i)
                 /\ streamers[i].val \in 1 .. Len(vs)
                 /\ streamer.video_id = IntToStr(i)
                 /\ streamer.video_path = Configured[i]
                 /\ streamer.cap \in 1 .. Len(caps)
                 /\ caps[streamer.cap].path = Configured[i]
                 /\ streamer.person_detector = person_detector
        /\ \A i, j \in 1 .. Len(streamers) :
              i # j => /\ streamers[i].val # streamers[j].val
                       /\ vs[streamers[i].val].cap # vs[streamers[j].val].cap

\* two streams of the same location, one of them consumed to the end
C9_Witness ==
    /\ phase = "serving"
    /\ Configured = <<"a.mp4", "a.mp4">>
    /\ \E c \in Clients : gen[c].pc = "done" /\ Len(gen[c].out) = 2

\* C10: on a source whose first read reports the end, generate_frames emits
\* nothing, hands nothing to the detector, raises nothing, and has released
\* the capture when it returns.
C10_EmptySource ==
    \A c \in Clients :
        (gen[c].self # None /\ caps[CapOf(c)].eof /\ caps[CapOf(c)].pos = 0) =>
            /\ gen[c].out = <<>>
            /\ detected[gen[c].self] = <<>>
            /\ gen[c].pc \in {"created", "while", "read", "release", "done", "closed"}
            /\ gen[c].pc = "done" => ~caps[CapOf(c)].opened

C10_Witness ==
    \E c \in Clients :
        /\ gen[c].pc = "done"
        /\ caps[CapOf(c)].path = "a.mp4"
        /\ caps[CapOf(c)].eof /\ caps[CapOf(c)].pos = 0
        /\ ~caps[CapOf(c)].opened
        /\ gen[c].out = <<>>

\* C11: a capture once released is never opened or read again; a generator
\* that finds it released (a call made after the stream was consumed) goes
\* from the loop test to the end without a chunk, a read or a detector call;
\* the identifier of a finished stream is still found by get_streamer.
C11_ClosedIsFinal ==
    /\ [](\A c \in Clients :
             (gen[c].pc = "done" /\ req[c].kind = "video_feed") =>
                 GetStreamer(req[c].video_id) = gen[c].self)
    /\ [][\A k \in 1 .. Len(caps) : ~caps[k].opened => caps'[k] = caps[k]]_vars
    /\ [][\A c \in Clients :
             (/\ gen[c].self # None
              /\ gen[c].pc \in {"created", "yielded", "while", "release"}
              /\ ~caps[CapOf(c)].opened) =>
                 /\ gen'[c].pc \in {gen[c].pc, "while", "release", "done", "closed"}
                 /\ gen'[c].out = gen[c].out
                 /\ gen'[c] # gen[c] => detected' = detected /\ vs' = vs]_vars

\* a stream consumed to the end by one request, and another request for the
\* same identifier that ended without a chunk
C11_Witness ==
    \E c, d \in Clients :
        /\ c # d /\ gen[c].self = gen[d].self /\ gen[c].self # None
        /\ gen[d].pc = "done" /\ Len(gen[d].out) = 3
        /\ gen[c].pc = "done" /\ gen[c].out = <<>>
        /\ GetStreamer(req[c].video_id) = gen[c].self

\* the source frames a generator holds or has delivered
FramesOf(c) ==
    {FrameOf(gen[c].out[i]).idx : i \in 1 .. Len(gen[c].out)}
    \cup (IF gen[c].frame.idx >= 0 THEN {gen[c].frame.idx} ELSE {})

\* C12: two generators of one VideoStreamer share its capture: no source
\* frame reaches both, each receives its chunks in capture order, and
\* together they have no more chunks than frames were read.
C12_SharedCursor ==
    \A c, d \in Clients :
        (c # d /\ gen[c].self # None /\ gen[c].self = gen[d].self) =>
            /\ FramesOf(c) \cap FramesOf(d) = {}
            /\ Increasing(gen[c].out)
            /\ Len(gen[c].out) + Len(gen[d].out) <= FramesRead(gen[c].self)
            /\ FramesRead(gen[c].self) <= MaxFrames

C12_Witness ==
    \E c, d \in Clients :
        /\ c # d /\ gen[c].self # None /\ gen[c].self = gen[d].self
        /\ gen[c].out # <<>> /\ gen[d].out # <<>>
        /\ Len(gen[c].out) + Len(gen[d].out) = 3
        /\ gen[c].pc = "done" /\ gen[d].pc = "done"

\* C13: a frame whose encoding fails is dropped and counted: the failing
\* step emits nothing, leaves frame_count (already advanced for the frame)
\* and the capture as they are and goes back to the loop test; with one
\* consumer frame_count equals the number of frames read whenever a frame is
\* not under way, so each frame is selected by its own index.
C13_EncodeFailureDrops ==
    /\ [](\A c \in Clients :
             (gen[c].self # None /\ ConsumersOf(gen[c].self) = {c}) =>
                 /\ gen[c].pc \in {"while", "read", "encode", "yielded",
                                   "release", "done", "closed"}
                       => Self(c).frame_count = FramesRead(gen[c].self)
                 /\ gen[c].pc = "select"
                       => Self(c).frame_count = gen[c].frame.idx)
    /\ [][\A c \in Clients :
             (gen[c].pc = "encode" /\ gen'[c].pc = "while") =>
                 /\ gen'[c].out = gen[c].out
                 /\ encode_failures'[gen[c].self] = encode_failures[gen[c].self] + 1
                 /\ vs' = vs
                 /\ caps' = caps]_vars

\* frames 0 and 1 were dropped by encode failures, frame 2 was still
\* selected for detection and delivered
C13_Witness ==
    \E c \in Clients :
        /\ gen[c].pc = "done"
        /\ Self(c).frame_skip = 2
        /\ encode_failures[gen[c].self] = 2
        /\ Len(gen[c].out) = 1 /\ FrameOf(gen[c].out[1]).idx = 2
        /\ detected[gen[c].self] = <<0, 2>>

\* C14: a location that cannot be opened keeps its place in the registry;
\* requests for it are answered with a stream that ends without a chunk, and
\* nothing is read from it.
C14_UnavailableSource ==
    phase = "serving" =>
        /\ Len(streamers) = Len(Configured)
        /\ \A i \in 1 .. Len(Configured) :
              Configured[i] = "missing.mp4" =>
                 /\ GetStreamer(IntToStr(i)) # None
                 /\ vs[GetStreamer(IntToStr(i))].video_path = "missing.mp4"
                 /\ ~caps[vs[GetStreamer(IntToStr(i))].cap].opened
                 /\ caps[vs[GetStreamer(IntToStr(i))].cap].pos = 0
        /\ \A c \in Clients :
              (gen[c].self # None /\ Self(c).video_path = "missing.mp4") =>
                 /\ resp[c].status = 200
                 /\ gen[c].out = <<>>
                 /\ gen[c].pc \in {"created", "while", "release", "done", "closed"}

\* the first location cannot be opened: its stream ended empty while the
\* stream of the second location delivered all its frames
C14_Witness ==
    /\ Configured = <<"missing.mp4", "a.mp4">>
    /\ \E c, d \in Clients :
          /\ req[c].video_id = "1" /\ gen[c].pc = "done" /\ gen[c].out = <<>>
          /\ req[d].video_id = "2" /\ gen[d].pc = "done" /\ Len(gen[d].out) = 3

\* C15: a read that fails emits nothing, moves no cursor and no counter,
\* and leaves every other capture alone; the generator then only releases
\* its own capture and returns, never going back to read.
C15_ReadFailureEndsStream ==
    /\ [][\A c \in Clients :
             (/\ gen[c].pc = "read" /\ gen'[c].pc # "read"
              /\ caps'[CapOf(c)].pos = caps[CapOf(c)].pos) =>
                 /\ gen'[c].pc = "release"
                 /\ gen'[c].out = gen[c].out
                 /\ vs' = vs /\ detected' = detected
                 /\ \A k \in 1 .. Len(caps) :
                       /\ caps'[k].pos = caps[k].pos
                       /\ caps'[k].opened = caps[k].opened
                       /\ k # CapOf(c) => caps'[k] = caps[k]]_vars
    /\ [][\A c \in Clients :
             gen[c].pc = "release" =>
                 /\ gen'[c].pc \in {"release", "done"}
                 /\ gen'[c].out = gen[c].out
                 /\ gen'[c].pc = "done" =>
                       /\ ~caps'[CapOf(c)].opened
                       /\ vs' = vs /\ detected' = detected
                       /\ \A k \in 1 .. Len(caps) :
                             k # CapOf(c) => caps'[k] = caps[k]]_vars

\* one stream ended by a failed read after its first frame, while another
\* stream is open and part-way through its source
C15_Witness ==
    \E c, d \in Clients :
        /\ gen[c].pc = "done" /\ caps[CapOf(c)].pos = 1 /\ caps[CapOf(c)].eof
        /\ gen[d].self # None /\ gen[d].self # gen[c].self
        /\ gen[d].pc = "yielded" /\ Len(gen[d].out) = 2
        /\ caps[CapOf(d)].opened /\ caps[CapOf(d)].pos = 2

\* frames read from the capture of s and neither yielded nor dropped
Pending(s) == FramesRead(s) - Emitted(s) - encode_failures[s]

\* C16: with one consumer at most one frame is read and not yet emitted or
\* dropped, and none is when the generator is about to read.
C16_NoReadAhead ==
    \A c \in Clients :
        (gen[c].self # None /\ ConsumersOf(gen[c].self) = {c}) =>
            /\ Pending(gen[c].self) \in {0, 1}
            /\ gen[c].pc \in {"created", "while", "read", "yielded"}
                  => Pending(gen[c].self) = 0
            /\ gen[c].pc \in {"select", "detect", "incr", "store", "encode"}
                  => /\ Pending(gen[c].self) = 1
                     /\ gen[c].frame.idx = FramesRead(gen[c].self) - 1

\* about to read the third frame: one frame delivered, one dropped
C16_Witness ==
    \E c \in Clients :
        /\ gen[c].pc = "read"
        /\ FramesRead(gen[c].self) = 2
        /\ Len(gen[c].out) = 1
        /\ encode_failures[gen[c].self] = 1

\* every frame buffer a generator holds or has delivered
FrameBuffers(c) ==
    {FrameOf(gen[c].out[i]) : i \in 1 .. Len(gen[c].out)}
    \cup {gen[c].frame, gen[c].processed_frame}

\* the detections of class 0 (person) among what the model reported
PersonDetections(results) == {i \in 1 .. Len(results) : results[i] = 0}

\* C17: the rectangles on a frame are those of the class-0 detections the
\* model reported for it, one each, and of no other detection.
C17_OnlyPersonsAnnotated ==
    \A c \in Clients : \A f \in FrameBuffers(c) :
        /\ {f.boxes[j] : j \in 1 .. Len(f.boxes)} = PersonDetections(f.results)
        /\ Len(f.boxes) = Cardinality(PersonDetections(f.results))

\* a delivered frame for which the model reported another class and a person:
\* only the person's rectangle is on it
C17_Witness ==
    \E c \in Clients : \E i \in 1 .. Len(gen[c].out) :
        /\ FrameOf(gen[c].out[i]).results = <<1, 0>>
        /\ FrameOf(gen[c].out[i]).boxes = <<2>>

\* C18 (as claimed): after detect_persons has returned, the buffer the
\* caller passed in (its variable frame) carries no rectangle.
C18_DetectDrawsOnCopy ==
    \A c \in Clients :
        gen[c].pc \in {"incr", "store", "encode"} => gen[c].frame.boxes = <<>>

\* C19: a request's call of get_streamer or list_videos changes neither the
\* registry nor any VideoStreamer, capture or counter.
C19_RegistryReadOnly ==
    [][\A c \in Clients :
          (gen[c].pc = "idle" /\ gen'[c].pc # "idle") =>
              UNCHANGED <<video_paths, streamers, person_detector, ndetectors,
                          vs, caps, detected, encode_failures>>]_vars

\* a stream part-way through its source, looked up and listed meanwhile
C19_Witness ==
    \E c, d \in Clients :
        /\ req[c].kind = "video_feed" /\ gen[c].pc = "yielded"
        /\ GetStreamer(req[c].video_id) = gen[c].self
        /\ Len(gen[c].out) = 2 /\ Self(c).frame_count = 2
        /\ req[d].kind = "list_videos" /\ Len(resp[d].body) = 2
        /\ Len(streamers) = 2

CRLF == "\r\n"

\* C20: every chunk is the boundary line "--frame", the header
\* "Content-Type: image/jpeg" and an empty line, the encoded payload of one
\* frame, and a closing CRLF, in this order.
C20_ChunkFormat ==
    \A c \in Clients :
        /\ resp[c].status = 200 /\ req[c].kind # "list_videos"
              => resp[c].body = gen[c].out
        /\ \A i \in 1 .. Len(gen[c].out) :
              LET chunk == gen[c].out[i]
              IN /\ Len(chunk) = 3
                 /\ chunk[1] = "--frame" \o CRLF
                                \o "Content-Type: image/jpeg" \o CRLF \o CRLF
                 /\ DOMAIN chunk[2] = {"jpg"}
                 /\ chunk[2].jpg.idx \in 0 .. MaxFrames - 1
                 /\ chunk[2].jpg.resized
                 /\ chunk[3] = CRLF

C20_Witness ==
    \E c \in Clients :
        /\ Len(gen[c].out) = 2
        /\ gen[c].out[2][1] = "--frame\r\nContent-Type: image/jpeg\r\n\r\n"
        /\ gen[c].out[2][2].jpg.idx = 1
        /\ gen[c].out[2][3] = "\r\n"

\* C21 (as claimed): when the configuration file is absent, is not JSON or
\* has no "videos" entry, main fails: no detector and no registry is built and
\* the server is never started.
C21_BadConfigIsFatal ==
    config.kind # "ok" =>
        /\ phase # "serving"
        /\ person_detector = None
        /\ streamers = <<>> /\ vs = <<>> /\ caps = <<>>

\* the part of C21 the code keeps: an absent or unparsable file is fatal
C21_AbsentOrUnparsableIsFatal ==
    config.kind \in {"absent", "malformed"} =>
        /\ phase # "serving"
        /\ person_detector = None
        /\ streamers = <<>> /\ vs = <<>> /\ caps = <<>>

\* the consumer holds a frame it has read and not yet counted
Uncounted(c) == gen[c].pc \in {"select", "detect", "incr", "store"}

\* C22 (as claimed): the counter starts at 0 and, whenever the consumer is
\* not between a read and the increment that follows it, equals the number of
\* frames read from the source so far.
C22_CounterCountsReads ==
    \A c \in Clients :
        (gen[c].pc # "idle" /\ gen[c].self # None /\ ~Uncounted(c)) =>
            Self(c).frame_count = FramesRead(gen[c].self)

\* the part of C22 the code keeps: as long as no detection has raised, the
\* counter is the number of frames read; it only ever grows by one, and a
\* failed read leaves it alone
C22_CounterTracksReads ==
    /\ [](\A c \in Clients :
             (gen[c].pc \notin {"idle", "error"} /\ gen[c].self # None
              /\ ~Uncounted(c)) =>
                 Self(c).frame_count = FramesRead(gen[c].self))
    /\ [][\A s \in 1 .. Len(vs) :
             /\ vs'[s].frame_count \in {vs[s].frame_count, vs[s].frame_count + 1}
             /\ caps'[vs[s].cap].eof # caps[vs[s].cap].eof
                   => vs'[s].frame_count = vs[s].frame_count]_vars

\* C23: a consumer that keeps pulling from an openable source, with a
\* Detector that always returns, sees the generator finish: the capture is
\* released, a read has reported the end of the source, and each of the n
\* frames read before it was counted and was either delivered or dropped by a
\* failed encode.
C23_EventuallyClosed ==
    /\ <>(gen[Consumer].pc = "done")
    /\ [](gen[Consumer].pc = "done" =>
             LET s == gen[Consumer].self
                 cap == caps[vs[s].cap]
             IN /\ ~cap.opened
                /\ cap.path # "missing.mp4" => cap.eof
                /\ vs[s].frame_count = cap.pos
                /\ Len(gen[Consumer].out) + encode_failures[s] = cap.pos)

\* a source of two frames, both read and delivered, then the end reported
C23_Witness ==
    /\ gen[Consumer].pc = "done"
    /\ LET cap == caps[CapOf(Consumer)]
       IN ~cap.opened /\ cap.eof /\ cap.pos = 2
    /\ Len(gen[Consumer].out) = 2

\* the consumer is between iterations of the loop of generate_frames
BetweenIterations(c) ==
    gen[c].pc \in {"created", "while", "read", "yielded", "release", "done", "closed"}

\* C24 (as claimed): with two consumers on one stream, whenever both are
\* between iterations the counter equals the frames read from the stream's
\* source, and the Detector has been called for CeilDiv(frames read,
\* frame_skip) of them.
C24_NoLostIncrement ==
    \A s \in 1 .. Len(vs) :
        (/\ Cardinality(ConsumersOf(s)) = 2
         /\ \A c \in ConsumersOf(s) : BetweenIterations(c)) =>
            /\ vs[s].frame_count = FramesRead(s)
            /\ Len(detected[s]) = CeilDiv(FramesRead(s), vs[s].frame_skip)

\* C25 (as claimed): list_videos has as many entries as the registry has
\* VideoStreamers, and the location it gives under "video{i}" is the
\* video_path of the VideoStreamer get_streamer(str(i)) returns, whatever the
\* caller has done meanwhile to the list it passed to StreamManager.
C25_ListAgreesWithLookup ==
    /\ Len(ListVideosDict) = Len(streamers)
    /\ \A i \in 1 .. Len(ListVideosDict) :
          LET streamer == GetStreamer(IntToStr(i))
          IN /\ Truthy(streamer)
             /\ DictGet(ListVideosDict, "video" \o IntToStr(i))
                    = vs[streamer].video_path

\* the screens placed in the grid, and the highlighted navigation buttons
Visible == {n \in DOMAIN screen_manager.screens : screen_manager.screens[n]}
Highlighted == {k \in DOMAIN nav_manager.buttons : nav_manager.buttons[k].selected}

\* C26 (as claimed): at most one screen is visible, and once a screen has been
\* shown, current_screen names the visible screen, whatever names show_screen
\* has been called with.
C26_ShowScreen ==
    /\ Cardinality(Visible) <= 1
    /\ phase = "mainloop" => Visible = {screen_manager.current_screen}

\* the part of C26 the code keeps: at most one screen is visible, a visible
\* screen is the current one, and show_screen of a registered name leaves
\* exactly that screen visible and current
C26_AtMostCurrentVisible ==
    /\ [](Visible \subseteq {screen_manager.current_screen})
    /\ [][\A name \in ShowNames :
             (ShowScreenCall(name) /\ Lower(name) \in DOMAIN screen_manager.screens)
                 => /\ Visible' = {Lower(name)}
                    /\ screen_manager'.current_screen = Lower(name)]_vars

\* C27 (as claimed): after navigate_to(s), for each of the six screens,
\* exactly one navigation button is highlighted, and its command navigates to
\* the screen now shown.
C27_ButtonFollowsScreen ==
    [][\A i \in 1 .. Len(ScreenNames) :
          NavigateTo(ScreenNames[i]) =>
              /\ Visible' = {ScreenNames[i]}
              /\ Cardinality(Highlighted') = 1
              /\ \A k \in Highlighted' :
                    nav_manager'.buttons[k].target = screen_manager'.current_screen]_vars

====
